---- MODULE Spec2Model ----
(***************************************************************************)
(* Multi-source Bluetooth device reconciliation                            *)
(* (app/services/bluetooth_service.py, app/utils/bluetooth_utils.py).      *)
(*                                                                         *)
(* Python values are represented as follows.                               *)
(*   str        a sequence of one-character strings, "" is << >>           *)
(*   list       a sequence                                                 *)
(*   dict       a function from keys to values                             *)
(*   None       the value None below (for str, list and dict fields)       *)
(*   missing    a key that is not in a device dict holds Absent            *)
(*   rssi       an integer; RSSI_NONE is None, RSSI_ABSENT a missing key   *)
(*   id, source_id, detected_by: opaque strings ("None"/"Absent" likewise) *)
(***************************************************************************)
EXTENDS Integers, Sequences, FiniteSets, TLC

None == <<"None">>
Absent == <<"Absent">>
NoneId == "None"
AbsentId == "Absent"
RSSI_NONE == 1000
RSSI_ABSENT == 1001

(***************************************************************************)
(* Characters: the printable ASCII range chr(32) .. chr(126); chr(96) is    *)
(* written "<grave>" because the lexer does not take a grave accent.       *)
(***************************************************************************)
Printable ==
    <<" ", "!", "\"", "#", "$", "%", "&", "'", "(", ")", "*", "+", ",", "-", ".", "/",
      "0", "1", "2", "3", "4", "5", "6", "7", "8", "9", ":", ";", "<", "=", ">", "?",
      "@", "A", "B", "C", "D", "E", "F", "G", "H", "I", "J", "K", "L", "M", "N", "O",
      "P", "Q", "R", "S", "T", "U", "V", "W", "X", "Y", "Z", "[", "\\", "]", "^", "_",
      "<grave>", "a", "b", "c", "d", "e", "f", "g", "h", "i", "j", "k", "l", "m", "n", "o",
      "p", "q", "r", "s", "t", "u", "v", "w", "x", "y", "z", "{", "|", "}", "~">>

FIRST_PRINTABLE == 32
LAST_PRINTABLE == 126

Chars == {Printable[i] : i \in 1..Len(Printable)}

chr(n) == Printable[n - FIRST_PRINTABLE + 1]

OrdTab == [c \in Chars |->
             FIRST_PRINTABLE - 1 + CHOOSE i \in 1..Len(Printable) : Printable[i] = c]

ord(c) == OrdTab[c]

isdigit(c) == ord(c) \in 48..57
isspace(c) == c = " "
isalpha(c) == ord(c) \in 65..90 \/ ord(c) \in 97..122

UpperTab == [c \in Chars |-> IF OrdTab[c] \in 97..122 THEN chr(OrdTab[c] - 32) ELSE c]
LowerTab == [c \in Chars |-> IF OrdTab[c] \in 65..90 THEN chr(OrdTab[c] + 32) ELSE c]

\* str.upper() / str.lower()
upper(s) == [i \in 1..Len(s) |-> UpperTab[s[i]]]
lower(s) == [i \in 1..Len(s) |-> LowerTab[s[i]]]

\* s.replace(c, "")
strip_char(s, c) == SelectSeq(s, LAMBDA x : x # c)

\* s[a:b] with 0 <= a, Python slice semantics (0-based, end exclusive, clipped)
slice(s, a, b) ==
    LET e == IF b > Len(s) THEN Len(s) ELSE b
    IN  IF a >= e THEN << >> ELSE [i \in 1..(e - a) |-> s[a + i]]

\* sub in s   (substring test on str)
contains(s, sub) ==
    \/ Len(sub) = 0
    \/ \E i \in 0..(Len(s) - Len(sub)) : slice(s, i, i + Len(sub)) = sub

\* set(s)
charset(s) == {s[i] : i \in 1..Len(s)}

\* x in lst
member(lst, x) == \E i \in 1..Len(lst) : lst[i] = x

\* Python truthiness of a str / list / dict value obtained with d.get(key)
truthy(v) == v # Absent /\ v # None /\ v # << >>
truthy_id(v) == v # AbsentId /\ v # NoneId /\ v # ""

(***************************************************************************)
(* app/utils/bluetooth_utils.py                                            *)
(***************************************************************************)
MAC_HEX_LEN == 12

\* clean_mac = mac.upper().replace(':', '').replace('-', '').replace('.', '')
clean_mac(mac) == strip_char(strip_char(strip_char(upper(mac), ":"), "-"), ".")

\* ':'.join([clean[i:i+2] for i in range(0, 12, 2)])
join_pairs(clean) ==
    LET n == MAC_HEX_LEN + (MAC_HEX_LEN \div 2) - 1
    IN  [i \in 1..n |->
           IF (i - 1) % 3 = 2 THEN ":"
           ELSE clean[2 * ((i - 1) \div 3) + ((i - 1) % 3) + 1]]

\* normalize_mac_address with the pairs of line 73 cut from the argument as
\* given instead of from clean_mac.
normalize_mac_address_raw_pairs(mac_address) ==
    IF ~truthy(mac_address) THEN << >>
    ELSE IF Len(clean_mac(mac_address)) # MAC_HEX_LEN THEN mac_address
    ELSE LET pair(k) == slice(mac_address, 2 * k, 2 * k + 2)
             pieces == [k \in 0..((MAC_HEX_LEN \div 2) - 1) |-> pair(k)]
         IN  pieces[0] \o <<":">> \o pieces[1] \o <<":">> \o pieces[2] \o <<":">>
             \o pieces[3] \o <<":">> \o pieces[4] \o <<":">> \o pieces[5]

normalize_mac_address(mac_address) ==
    IF ~truthy(mac_address) THEN << >>
    ELSE LET clean == clean_mac(mac_address)
         IN  IF Len(clean) # MAC_HEX_LEN THEN mac_address
             ELSE join_pairs(clean)

HexDigits == {"0", "1", "2", "3", "4", "5", "6", "7", "8", "9", "A", "B", "C", "D", "E", "F"}

\* decode_ascii_name: values = [int(code) for code in encoded_name.split() if code.isdigit()]
RECURSIVE parse_codes(_, _, _, _, _)
parse_codes(s, i, cur, incode, acc) ==
    IF i > Len(s) THEN (IF incode THEN Append(acc, cur) ELSE acc)
    ELSE IF isspace(s[i])
         THEN parse_codes(s, i + 1, 0, FALSE, IF incode THEN Append(acc, cur) ELSE acc)
         ELSE parse_codes(s, i + 1, cur * 10 + (ord(s[i]) - 48), TRUE, acc)

\* values[:values.index(0)] if 0 in values
until_null(values) ==
    IF member(values, 0)
    THEN SubSeq(values, 1, (CHOOSE i \in 1..Len(values) :
                              values[i] = 0 /\ \A j \in 1..(i - 1) : values[j] # 0) - 1)
    ELSE values

\* ''.join(chr(code) for code in values if 32 <= code <= 126)
RECURSIVE printable_text(_)
printable_text(values) ==
    IF values = << >> THEN << >>
    ELSE IF Head(values) >= FIRST_PRINTABLE /\ Head(values) <= LAST_PRINTABLE
         THEN <<chr(Head(values))>> \o printable_text(Tail(values))
         ELSE printable_text(Tail(values))

MIN_DECODED_LEN == 2

decode_ascii_name(encoded_name) ==
    IF ~truthy(encoded_name) THEN encoded_name
    ELSE IF \E i \in 1..Len(encoded_name) :
               ~(isdigit(encoded_name[i]) \/ isspace(encoded_name[i]))
         THEN encoded_name
    ELSE LET values == until_null(parse_codes(encoded_name, 1, 0, FALSE, << >>))
             decoded == printable_text(values)
         IN  IF Len(decoded) >= MIN_DECODED_LEN /\ \E i \in 1..Len(decoded) : isalpha(decoded[i])
             THEN decoded
             ELSE encoded_name

(***************************************************************************)
(* app/services/bluetooth_service.py: the identity heuristic               *)
(***************************************************************************)
_is_mac_address(address) ==
    IF ~truthy(address) THEN FALSE
    ELSE LET clean == clean_mac(address)
         IN  /\ Len(clean) >= MAC_HEX_LEN
             /\ \A i \in 1..MAC_HEX_LEN : clean[i] \in HexDigits

_normalize_device_id(address) ==
    IF ~truthy(address) THEN << >>
    ELSE IF _is_mac_address(address) THEN normalize_mac_address(address)
    ELSE address

max(a, b) == IF a >= b THEN a ELSE b
min(a, b) == IF a <= b THEN a ELSE b

\* threshold = 0.7, as the fraction THRESHOLD_NUM / THRESHOLD_DEN
THRESHOLD_NUM == 7
THRESHOLD_DEN == 10
MIN_COMMON_SUBSTRING == 3

\* _names_match with the containment of line 425 tested in one direction.
_names_match_one_way(name1, name2) ==
    IF ~truthy(name1) \/ ~truthy(name2) THEN FALSE
    ELSE LET n1 == lower(name1)
             n2 == lower(name2)
         IN  \/ n1 = n2
             \/ contains(n2, n1)
             \/ Cardinality(charset(n1) \cap charset(n2)) * THRESHOLD_DEN
                  >= THRESHOLD_NUM * max(Cardinality(charset(n1)), Cardinality(charset(n2)))
             \/ \E length \in MIN_COMMON_SUBSTRING..min(Len(n1), Len(n2)) :
                  \E i \in 0..(Len(n1) - length) : contains(n2, slice(n1, i, i + length))

_names_match(name1, name2) ==
    IF ~truthy(name1) \/ ~truthy(name2) THEN FALSE
    ELSE LET n1 == lower(name1)
             n2 == lower(name2)
         IN  \/ n1 = n2
             \/ contains(n2, n1) \/ contains(n1, n2)
             \/ Cardinality(charset(n1) \cap charset(n2)) * THRESHOLD_DEN
                  >= THRESHOLD_NUM * max(Cardinality(charset(n1)), Cardinality(charset(n2)))
             \/ \E length \in MIN_COMMON_SUBSTRING..min(Len(n1), Len(n2)) :
                  \E i \in 0..(Len(n1) - length) : contains(n2, slice(n1, i, i + length))

Unknown == <<"U", "n", "k", "n", "o", "w", "n">>
DeviceWord == <<"D", "e", "v", "i", "c", "e">>

significant_uuids ==
    { "0000180f-0000-1000-8000-00805f9b34fb", "00001800-0000-1000-8000-00805f9b34fb",
      "00001801-0000-1000-8000-00805f9b34fb", "0000180a-0000-1000-8000-00805f9b34fb",
      "0000180d-0000-1000-8000-00805f9b34fb", "00001803-0000-1000-8000-00805f9b34fb",
      "00001805-0000-1000-8000-00805f9b34fb", "00001812-0000-1000-8000-00805f9b34fb",
      "00001813-0000-1000-8000-00805f9b34fb", "00001819-0000-1000-8000-00805f9b34fb" }

\* set(lst)
elements(lst) == {lst[i] : i \in 1..Len(lst)}

\* Cas 1: adresses MAC identiques (normalisees)
match_address(device1, device2) ==
    /\ _is_mac_address(device1.address) /\ _is_mac_address(device2.address)
    /\ LET norm_addr1 == _normalize_device_id(device1.address)
           norm_addr2 == _normalize_device_id(device2.address)
       IN  truthy(norm_addr1) /\ truthy(norm_addr2) /\ norm_addr1 = norm_addr2

\* Cas 2: memes noms significatifs
match_name(device1, device2) ==
    /\ truthy(device1.name) /\ truthy(device2.name)
    /\ device1.name # Unknown /\ device2.name # Unknown
    /\ _names_match(device1.name, device2.name)

\* Cas 2.5: noms decodes qui correspondent
match_decoded_name(device1, device2) ==
    /\ truthy(device1.name) /\ truthy(device2.name)
    /\ LET decoded_name1 == decode_ascii_name(device1.name)
           decoded_name2 == decode_ascii_name(device2.name)
       IN  /\ decoded_name1 # device1.name \/ decoded_name2 # device2.name
           /\ truthy(decoded_name1) /\ truthy(decoded_name2)
           /\ _names_match(decoded_name1, decoded_name2)

\* Cas 3: nom convivial identique et non generique
match_friendly_name(device1, device2) ==
    /\ truthy(device1.friendly_name) /\ truthy(device2.friendly_name)
    /\ ~contains(device1.friendly_name, DeviceWord)
    /\ ~contains(device2.friendly_name, DeviceWord)
    /\ _names_match(device1.friendly_name, device2.friendly_name)

\* Cas 4: source ID contenu dans merged_from
match_merged_from(device1, device2) ==
    \/ /\ truthy_id(device1.source_id) /\ truthy(device2.merged_from)
       /\ member(device2.merged_from, device1.source_id)
    \/ /\ truthy_id(device2.source_id) /\ truthy(device1.merged_from)
       /\ member(device1.merged_from, device2.source_id)

\* Cas 5: services UUID identiques (pour les UUID significatifs)
match_service_uuids(device1, device2) ==
    /\ truthy(device1.service_uuids) /\ truthy(device2.service_uuids)
    /\ (elements(device1.service_uuids) \cap elements(device2.service_uuids))
         \cap significant_uuids # {}

\* Cas 6: identifiants de fabricant identiques
match_manufacturer(device1, device2) ==
    /\ truthy(device1.manufacturer_data) /\ truthy(device2.manufacturer_data)
    /\ (DOMAIN device1.manufacturer_data) \cap (DOMAIN device2.manufacturer_data) # {}

_device_matches(device1, device2) ==
    \/ match_address(device1, device2)
    \/ match_name(device1, device2)
    \/ match_decoded_name(device1, device2)
    \/ match_friendly_name(device1, device2)
    \/ match_merged_from(device1, device2)
    \/ match_service_uuids(device1, device2)
    \/ match_manufacturer(device1, device2)

(***************************************************************************)
(* app/utils/bluetooth_utils.py: merge_device_info                         *)
(*                                                                         *)
(* A device dict is a record with the fields below; a key the dict does    *)
(* not have holds Absent (AbsentId, RSSI_ABSENT).                          *)
(***************************************************************************)
EmptyDevice ==
    [ id |-> AbsentId, source_id |-> AbsentId, address |-> Absent, name |-> Absent,
      friendly_name |-> Absent, rssi |-> RSSI_ABSENT, manufacturer_data |-> Absent,
      service_uuids |-> Absent, detected_by |-> AbsentId,
      detection_sources |-> Absent, merged_from |-> Absent,
      device_type |-> Absent, company_name |-> Absent, service_data |-> Absent ]

abs(n) == IF n < 0 THEN -n ELSE n

\* lines 187-190: the right-hand record is the stronger one
classic_is_stronger(ble_device, classic_device, prioritize_high_rssi) ==
    /\ prioritize_high_rssi
    /\ ble_device.rssi # RSSI_ABSENT /\ classic_device.rssi # RSSI_ABSENT
    /\ classic_device.rssi # RSSI_NONE
    /\ (ble_device.rssi = RSSI_NONE \/ abs(classic_device.rssi) < abs(ble_device.rssi))

stronger_device(ble_device, classic_device, prioritize_high_rssi) ==
    IF classic_is_stronger(ble_device, classic_device, prioritize_high_rssi)
    THEN classic_device ELSE ble_device

weaker_device(ble_device, classic_device, prioritize_high_rssi) ==
    IF classic_is_stronger(ble_device, classic_device, prioritize_high_rssi)
    THEN ble_device ELSE classic_device

\* lines 196-198: key not in merged or merged[key] is None / "" / 0 / []
\* (an empty dict equals none of these, so a dict is replaced only if None)
fill_seq(mine, other) ==
    IF other = Absent THEN mine
    ELSE IF mine = Absent \/ mine = None \/ mine = << >> THEN other ELSE mine

fill_dict(mine, other) ==
    IF other = Absent THEN mine
    ELSE IF mine = Absent \/ mine = None THEN other ELSE mine

fill_id(mine, other) ==
    IF other = AbsentId THEN mine
    ELSE IF mine = AbsentId \/ mine = NoneId \/ mine = "" THEN other ELSE mine

fill_rssi(mine, other) ==
    IF other = RSSI_ABSENT THEN mine
    ELSE IF mine = RSSI_ABSENT \/ mine = RSSI_NONE \/ mine = 0 THEN other ELSE mine

backfill(stronger, weaker) ==
    [ id |-> fill_id(stronger.id, weaker.id),
      source_id |-> fill_id(stronger.source_id, weaker.source_id),
      address |-> fill_seq(stronger.address, weaker.address),
      name |-> fill_seq(stronger.name, weaker.name),
      friendly_name |-> fill_seq(stronger.friendly_name, weaker.friendly_name),
      rssi |-> fill_rssi(stronger.rssi, weaker.rssi),
      manufacturer_data |-> fill_dict(stronger.manufacturer_data, weaker.manufacturer_data),
      service_uuids |-> fill_seq(stronger.service_uuids, weaker.service_uuids),
      detected_by |-> fill_id(stronger.detected_by, weaker.detected_by),
      detection_sources |-> fill_seq(stronger.detection_sources, weaker.detection_sources),
      merged_from |-> fill_seq(stronger.merged_from, weaker.merged_from),
      device_type |-> fill_seq(stronger.device_type, weaker.device_type),
      company_name |-> fill_seq(stronger.company_name, weaker.company_name),
      service_data |-> fill_dict(stronger.service_data, weaker.service_data) ]

Space == <<" ">>

\* lines 203-212
merged_name(merged, weaker) ==
    LET placeholder(n) == ~truthy(n) \/ n = Unknown
        step1 == IF /\ truthy(weaker.name) /\ contains(weaker.name, Space)
                    /\ decode_ascii_name(weaker.name) # weaker.name
                    /\ placeholder(merged.name)
                 THEN decode_ascii_name(weaker.name) ELSE merged.name
    IN  IF truthy(weaker.name) /\ weaker.name # Unknown /\ placeholder(step1)
        THEN weaker.name ELSE step1

\* lines 214-225
merged_friendly_name(merged, weaker) ==
    IF ~truthy(weaker.friendly_name) THEN merged.friendly_name
    ELSE LET step1 == IF /\ contains(weaker.friendly_name, Space)
                         /\ decode_ascii_name(weaker.friendly_name) # weaker.friendly_name
                         /\ (~truthy(merged.friendly_name)
                               \/ contains(merged.friendly_name, DeviceWord))
                      THEN decode_ascii_name(weaker.friendly_name)
                      ELSE merged.friendly_name
         IN  IF ~truthy(step1) \/ Len(weaker.friendly_name) > Len(step1)
             THEN weaker.friendly_name ELSE step1

\* lines 227-229
merged_company(merged, weaker) ==
    IF truthy(weaker.company_name) /\ ~truthy(merged.company_name)
    THEN weaker.company_name ELSE merged.company_name

Plus == <<"+">>

\* str.split("+"): the pieces between the separators, empty ones included
RECURSIVE split(_, _, _)
split(s, sep, cur) ==
    IF s = << >> THEN <<cur>>
    ELSE IF <<Head(s)>> = sep THEN <<cur>> \o split(Tail(s), sep, << >>)
    ELSE split(Tail(s), sep, Append(cur, Head(s)))

\* s1 <= s2 in the order of str comparison (by code point, a prefix first)
RECURSIVE str_le(_, _)
str_le(s1, s2) ==
    IF s1 = << >> THEN TRUE
    ELSE IF s2 = << >> THEN FALSE
    ELSE IF ord(Head(s1)) # ord(Head(s2)) THEN ord(Head(s1)) < ord(Head(s2))
    ELSE str_le(Tail(s1), Tail(s2))

\* sorted(types)
RECURSIVE sorted_tags(_)
sorted_tags(types) ==
    IF types = {} THEN << >>
    ELSE LET first == CHOOSE t \in types : \A u \in types : str_le(t, u)
         IN  <<first>> \o sorted_tags(types \ {first})

\* "+".join(pieces)
RECURSIVE join(_, _)
join(sep, pieces) ==
    IF pieces = << >> THEN << >>
    ELSE IF Len(pieces) = 1 THEN pieces[1]
    ELSE pieces[1] \o sep \o join(sep, Tail(pieces))

\* lines 286-294: the tags of one device_type
type_tags(device_type) ==
    IF contains(device_type, Plus) THEN elements(split(device_type, Plus, << >>))
    ELSE {device_type}

\* merged_device_type that appends the weaker's type to the stronger's
\* instead of sorting the union of their tags.
merged_device_type_appended(merged, weaker) ==
    IF /\ merged.device_type # Absent /\ weaker.device_type # Absent
       /\ merged.device_type # weaker.device_type
       /\ merged.device_type # None /\ weaker.device_type # None
    THEN merged.device_type \o Plus \o weaker.device_type
    ELSE merged.device_type

\* lines 283-296 (both types are str here; see raises_on_none for None)
merged_device_type(merged, weaker) ==
    IF /\ merged.device_type # Absent /\ weaker.device_type # Absent
       /\ merged.device_type # weaker.device_type
       /\ merged.device_type # None /\ weaker.device_type # None
    THEN join(Plus, sorted_tags(type_tags(merged.device_type) \cup type_tags(weaker.device_type)))
    ELSE merged.device_type

\* A union in which the weaker record's value replaces the stronger's.
merged_dict_weaker_wins(mine, other) ==
    IF mine = Absent \/ other = Absent \/ other = None THEN mine
    ELSE [k \in (DOMAIN mine) \cup (DOMAIN other) |->
            IF k \in DOMAIN other THEN other[k] ELSE mine[k]]

\* lines 231-235, 243-247: keys of the weaker dict that merged lacks are
\* added (a weaker value of None has no items(): see merge_raises)
merged_dict(mine, other) ==
    IF mine = Absent \/ other = Absent \/ other = None THEN mine
    ELSE [k \in (DOMAIN mine) \cup (DOMAIN other) |->
            IF k \in DOMAIN mine THEN mine[k] ELSE other[k]]

\* list(set): some list holding each element once; the order is that of the
\* interpreter's set iteration, which the program does not control
RECURSIVE list_of(_)
list_of(S) ==
    IF S = {} THEN << >>
    ELSE LET x == CHOOSE y \in S : TRUE IN <<x>> \o list_of(S \ {x})

\* lines 237-241
merged_uuids(mine, other) ==
    IF mine # Absent /\ truthy(other)
    THEN list_of(elements(mine) \cup elements(other))
    ELSE mine

\* lst.append(x) if x is truthy and not in lst
append_new(lst, x) == IF truthy_id(x) /\ ~member(lst, x) THEN Append(lst, x) ELSE lst

RECURSIVE extend_new(_, _)
extend_new(lst, xs) ==
    IF xs = << >> THEN lst ELSE extend_new(append_new(lst, Head(xs)), Tail(xs))

\* merged_sources without lines 253-254: the record's own detected_by is not
\* recorded, only the weaker record's.
merged_sources_weaker_only(merged, weaker) ==
    LET base == IF merged.detection_sources = Absent THEN << >>
                ELSE merged.detection_sources
    IN  append_new(base, weaker.detected_by)

\* lines 249-257
merged_sources(merged, weaker) ==
    LET base == IF merged.detection_sources = Absent THEN << >>
                ELSE merged.detection_sources
    IN  append_new(append_new(base, merged.detected_by), weaker.detected_by)

\* merged_ids without lines 270-274: the ids the weaker record had already
\* absorbed are not carried over.
merged_ids_no_carry(merged, weaker) ==
    LET base == IF merged.merged_from = Absent THEN << >> ELSE merged.merged_from
    IN  append_new(append_new(base, merged.source_id), weaker.source_id)

\* lines 259-281
merged_ids(merged, weaker) ==
    LET base == IF merged.merged_from = Absent THEN << >> ELSE merged.merged_from
        own == append_new(append_new(base, merged.source_id), weaker.source_id)
        all == IF truthy(weaker.merged_from) THEN extend_new(own, weaker.merged_from)
               ELSE own
    IN  IF all # << >> THEN all
        ELSE LET first == IF truthy_id(merged.id) THEN <<merged.id>> ELSE << >>
             IN  IF truthy_id(weaker.id) /\ weaker.id # merged.id
                 THEN Append(first, weaker.id) ELSE first

is_empty(device) == device = EmptyDevice

\* lines 231-308: the collections and the tags, once the names are settled
merge_collections(merged, weaker) ==
    [merged EXCEPT
       !.manufacturer_data = merged_dict(merged.manufacturer_data, weaker.manufacturer_data),
       !.service_uuids = merged_uuids(merged.service_uuids, weaker.service_uuids),
       !.service_data = merged_dict(merged.service_data, weaker.service_data),
       !.company_name = merged_company(merged, weaker),
       !.detection_sources = merged_sources(merged, weaker),
       !.merged_from = merged_ids(merged, weaker),
       !.device_type = merged_device_type(merged, weaker)]

\* lines 214-225, then the rest
merge_friendly_name(merged, weaker) ==
    merge_collections([merged EXCEPT !.friendly_name = merged_friendly_name(merged, weaker)],
                      weaker)

\* lines 203-212, then the rest
merge_name(merged, weaker) ==
    merge_friendly_name([merged EXCEPT !.name = merged_name(merged, weaker)], weaker)

\* lines 193-308: merged = stronger_device.copy(), filled and completed
merge_into(stronger, weaker) == merge_name(backfill(stronger, weaker), weaker)

merge_device_info(ble_device, classic_device, prioritize_high_rssi) ==
    IF is_empty(ble_device) THEN classic_device
    ELSE IF is_empty(classic_device) THEN ble_device
    ELSE merge_into(stronger_device(ble_device, classic_device, prioritize_high_rssi),
                    weaker_device(ble_device, classic_device, prioritize_high_rssi))

\* The statements of merge_device_info that raise on a None value: lines 233
\* and 245 (None.items()), lines 253-257 (membership in None), lines 265-281
\* (membership in None, None.append), lines 285-291 ("+" in None).
\* merged is the copy of the stronger record after lines 196-198.
raises_on_none(merged, weaker) ==
    \/ weaker.manufacturer_data = None
    \/ weaker.service_data = None
    \/ /\ merged.detection_sources = None
       /\ (truthy_id(merged.detected_by) \/ truthy_id(weaker.detected_by))
    \/ /\ merged.merged_from = None
       /\ \/ truthy_id(merged.source_id) \/ truthy_id(weaker.source_id)
          \/ truthy(weaker.merged_from)
          \/ truthy_id(merged.id)
          \/ (truthy_id(weaker.id) /\ weaker.id # merged.id)
    \/ /\ weaker.device_type = None
       /\ merged.device_type # Absent /\ merged.device_type # None

raises_into(stronger, weaker) == raises_on_none(backfill(stronger, weaker), weaker)

merge_raises(ble_device, classic_device, prioritize_high_rssi) ==
    /\ ~is_empty(ble_device) /\ ~is_empty(classic_device)
    /\ raises_into(stronger_device(ble_device, classic_device, prioritize_high_rssi),
                   weaker_device(ble_device, classic_device, prioritize_high_rssi))

(***************************************************************************)
(* app/services/bluetooth_service.py: the working set and the two passes   *)
(*                                                                         *)
(* The working set all_devices is an insertion-ordered dict: a sequence of *)
(* entries [key, dev, members].  members is bookkeeping of the model: the  *)
(* positions in `received` of the adapter records the entry stands for.    *)
(***************************************************************************)
has_key(devices, k) == \E i \in 1..Len(devices) : devices[i].key = k

index_of(devices, k) == CHOOSE i \in 1..Len(devices) : devices[i].key = k

\* devices[k] = dev: in place when the key exists, appended otherwise
put(devices, k, dev, members) ==
    IF has_key(devices, k)
    THEN [devices EXCEPT ![index_of(devices, k)] = [key |-> k, dev |-> dev, members |-> members]]
    ELSE Append(devices, [key |-> k, dev |-> dev, members |-> members])

\* lines 305-319
_find_matching_device(device, device_dict) ==
    IF \E i \in 1..Len(device_dict) : _device_matches(device_dict[i].dev, device)
    THEN device_dict[CHOOSE i \in 1..Len(device_dict) :
                        /\ _device_matches(device_dict[i].dev, device)
                        /\ \A j \in 1..(i - 1) : ~_device_matches(device_dict[j].dev, device)].key
    ELSE NoneId

\* lines 103-108, 123-131, 144-152: fold of one record by its id
fold_by_id(devices, device, n, deduplicate) ==
    IF deduplicate /\ has_key(devices, device.id)
    THEN LET old == devices[index_of(devices, device.id)]
         IN  put(devices, device.id, merge_device_info(old.dev, device, TRUE),
                 old.members \cup {n})
    ELSE put(devices, device.id, device, {n})

\* lines 171-184, 202-215: fold of one record of a Windows adapter
fold_by_match(devices, device, n, deduplicate) ==
    IF deduplicate /\ ~has_key(devices, device.id)
                   /\ truthy_id(_find_matching_device(device, devices))
    THEN LET match_id == _find_matching_device(device, devices)
             old == devices[index_of(devices, match_id)]
         IN  put(devices, match_id, merge_device_info(old.dev, device, TRUE),
                 old.members \cup {n})
    ELSE fold_by_id(devices, device, n, deduplicate)

\* the merge that the fold of one record calls raises
fold_raises(devices, device, deduplicate, by_match) ==
    /\ deduplicate
    /\ IF has_key(devices, device.id)
       THEN merge_raises(devices[index_of(devices, device.id)].dev, device, TRUE)
       ELSE /\ by_match
            /\ truthy_id(_find_matching_device(device, devices))
            /\ merge_raises(devices[index_of(devices, _find_matching_device(device, devices))].dev,
                            device, TRUE)

\* the for loop over one adapter's records; n is the number of records
\* folded before this one.  The loop ends at the first record whose merge
\* raises: the result is the working set, the number of records folded and
\* whether the loop was left by the exception.
RECURSIVE fold_records(_, _, _, _, _)
fold_records(devices, records, n, deduplicate, by_match) ==
    IF records = << >> THEN [devices |-> devices, n |-> n, raised |-> FALSE]
    ELSE IF fold_raises(devices, Head(records), deduplicate, by_match)
         THEN [devices |-> devices, n |-> n, raised |-> TRUE]
    ELSE fold_records(
           IF by_match THEN fold_by_match(devices, Head(records), n + 1, deduplicate)
                       ELSE fold_by_id(devices, Head(records), n + 1, deduplicate),
           Tail(records), n + 1, deduplicate, by_match)

DEFAULT_SORT_RSSI == -100

\* line 337
sort_key(device) ==
    IF device.rssi = RSSI_ABSENT \/ device.rssi = RSSI_NONE THEN DEFAULT_SORT_RSSI
    ELSE device.rssi

\* An ascending order: the weakest signal first.
sorts_before_ascending(e, f) == sort_key(e.dev) < sort_key(f.dev)

\* lines 335-339, reverse=True: the stronger signal first
sorts_before(e, f) == sort_key(e.dev) > sort_key(f.dev)

\* lines 335-339: sorted(..., reverse=True), a stable sort
RECURSIVE insert_sorted(_, _)
insert_sorted(sorted, e) ==
    IF sorted = << >> THEN <<e>>
    ELSE IF sorts_before(e, Head(sorted)) THEN <<e>> \o sorted
    ELSE <<Head(sorted)>> \o insert_sorted(Tail(sorted), e)

RECURSIVE sort_by_rssi(_)
sort_by_rssi(devices) ==
    IF devices = << >> THEN << >>
    ELSE insert_sorted(sort_by_rssi(SubSeq(devices, 1, Len(devices) - 1)),
                       devices[Len(devices)])

\* Which input's list the merged record holds (merged = stronger.copy() is a
\* shallow copy, and the fill of lines 196-198 assigns the weaker's object).
list_owner(stronger_list, weaker_list) ==
    IF truthy(stronger_list) THEN "stronger"
    ELSE IF weaker_list # Absent THEN "weaker"
    ELSE IF stronger_list # Absent THEN "stronger"
    ELSE "new"

dict_owner(stronger_dict, weaker_dict) ==
    IF stronger_dict # Absent /\ stronger_dict # None THEN "stronger"
    ELSE IF weaker_dict # Absent THEN "weaker"
    ELSE IF stronger_dict # Absent THEN "stronger"
    ELSE "new"

\* What one argument of merge_device_info holds after the call.  `side` says
\* whether it was the stronger or the weaker record: the dict that lines
\* 233-235 add keys to and the lists that lines 253-274 append to are the
\* argument's own objects whenever the merged record holds them.
after_merge(device, side, stronger, weaker, merged) ==
    [device EXCEPT
       !.manufacturer_data =
           IF dict_owner(stronger.manufacturer_data, weaker.manufacturer_data) = side
           THEN merged.manufacturer_data ELSE @,
       !.detection_sources =
           IF list_owner(stronger.detection_sources, weaker.detection_sources) = side
           THEN merged.detection_sources ELSE @,
       !.merged_from =
           IF list_owner(stronger.merged_from, weaker.merged_from) = side
           THEN merged.merged_from ELSE @]

\* the two arguments as they are when merge_device_info has returned
args_after_merge(ble_device, classic_device, prioritize_high_rssi) ==
    IF is_empty(ble_device) \/ is_empty(classic_device)
    THEN <<ble_device, classic_device>>
    ELSE LET stronger == stronger_device(ble_device, classic_device, prioritize_high_rssi)
             weaker == weaker_device(ble_device, classic_device, prioritize_high_rssi)
             merged == merge_device_info(ble_device, classic_device, prioritize_high_rssi)
             swapped == classic_is_stronger(ble_device, classic_device, prioritize_high_rssi)
         IN  << after_merge(ble_device, IF swapped THEN "weaker" ELSE "stronger",
                            stronger, weaker, merged),
                after_merge(classic_device, IF swapped THEN "stronger" ELSE "weaker",
                            stronger, weaker, merged) >>

\* lines 351-358, the inner loop for one canonical entry.  st.device is the
\* entry as the loop variable `device` sees it: merge_device_info appends to
\* merged_from and adds keys to manufacturer_data in place, so while
\* result[device_id] still holds the list (dict) object of `device`, the
\* object `device` is compared with grows too.
\* which argument of merge_device_info(res, other) the running result is
res_side(res, other) == IF classic_is_stronger(res, other, TRUE) THEN "weaker" ELSE "stronger"

\* the merged record's merged_from (manufacturer_data) is the list (dict)
\* object of the running result
res_owns_ids(res, other) ==
    list_owner(stronger_device(res, other, TRUE).merged_from,
               weaker_device(res, other, TRUE).merged_from) = res_side(res, other)

res_owns_data(res, other) ==
    dict_owner(stronger_device(res, other, TRUE).manufacturer_data,
               weaker_device(res, other, TRUE).manufacturer_data) = res_side(res, other)

\* lines 355-358: result[device_id] = merge_device_info(result[device_id],
\* other_device); processed_ids.add(other_id)
absorb_one(st, other, merged, shared_ids, shared_data) ==
    [ res |-> merged,
      device |-> [st.device EXCEPT
                    !.merged_from = IF shared_ids THEN merged.merged_from ELSE @,
                    !.manufacturer_data = IF shared_data THEN merged.manufacturer_data ELSE @],
      shared_ids |-> shared_ids,
      shared_data |-> shared_data,
      failed |-> FALSE,
      processed |-> st.processed \cup {other.key},
      members |-> st.members \cup other.members ]

RECURSIVE absorb_matches(_, _, _)
absorb_matches(st, devices, j) ==
    IF j > Len(devices) THEN st
    ELSE IF devices[j].key \in st.processed \/ ~_device_matches(st.device, devices[j].dev)
         THEN absorb_matches(st, devices, j + 1)
    ELSE IF merge_raises(st.res, devices[j].dev, TRUE)
         THEN [st EXCEPT !.failed = TRUE]
    ELSE absorb_matches(
           absorb_one(st, devices[j], merge_device_info(st.res, devices[j].dev, TRUE),
                      st.shared_ids /\ res_owns_ids(st.res, devices[j].dev),
                      st.shared_data /\ res_owns_data(st.res, devices[j].dev)),
           devices, j + 1)

\* What stands for the final pass when one of its merges raised: the
\* exception leaves _advanced_deduplication and no list is returned.
MergeRaised == <<[key |-> "raised", dev |-> EmptyDevice, members |-> {}]>>

\* lines 342-358, the outer loop over sorted_devices
RECURSIVE dedup_loop(_, _, _, _)
dedup_loop(sorted, devices, processed, result) ==
    IF sorted = << >> THEN result
    ELSE IF Head(sorted).key \in processed
         THEN dedup_loop(Tail(sorted), devices, processed, result)
    ELSE LET e == Head(sorted)
             st == absorb_matches(
                     [ res |-> e.dev, device |-> e.dev, shared_ids |-> TRUE,
                       shared_data |-> TRUE, failed |-> FALSE,
                       processed |-> processed \cup {e.key},
                       members |-> e.members ],
                     devices, 1)
         IN  IF st.failed THEN MergeRaised
             ELSE dedup_loop(Tail(sorted), devices, st.processed,
                        Append(result, [key |-> e.key, dev |-> st.res, members |-> st.members]))

\* lines 321-360
_advanced_deduplication(devices) ==
    dedup_loop(sort_by_rssi(devices), devices, {}, << >>)

(***************************************************************************)
(* scan_for_devices as a state machine                                     *)
(***************************************************************************)
VARIABLES
    deduplicate_devices,  \* parameter
    parallel_scans,       \* parameter
    tasks,                \* the adapters this call invokes, in task order
    pc,                   \* where scan_for_devices is
    settled,              \* parallel mode: the tasks that have settled
    raised,               \* the adapters whose scan raised an exception
    scan_results,         \* what each adapter (parallel mode: each task) returned
    all_devices,          \* the working set
    received,             \* every record folded so far, as stamped on receipt
    output,               \* the list returned to the caller
    call,                 \* the last call of a pure function: [op, args, ret]
    catalog,              \* which records the adapters of this run can return
    failures,             \* the phases of reconciliation that raised, with the cause
    error,                \* the exception that left scan_for_devices
    response              \* the answer of the HTTP endpoint

vars == <<deduplicate_devices, parallel_scans, tasks, pc, settled, raised, scan_results,
          all_devices, received, output, call, catalog, failures, error, response>>

scan_vars == <<deduplicate_devices, parallel_scans, tasks, pc, settled, raised,
               scan_results, all_devices, received, output, catalog, failures, error,
               response>>

MaxRecords == 4

Adapters == <<"ble", "classic", "windows", "windows_advanced">>

adapter_name(a) ==
    CASE a = "ble" -> "ble_scanner"
      [] a = "classic" -> "classic_scanner"
      [] a = "windows" -> "windows_scanner"
      [] a = "windows_advanced" -> "windows_advanced_scanner"

\* lines 79-91 (and 134, 159, 190): which adapters a call invokes
task_list(include_classic, CLASSIC_BT_AVAILABLE, IS_WINDOWS, extended_freebox_detection) ==
    SelectSeq(Adapters, LAMBDA a :
        \/ a = "ble"
        \/ a = "classic" /\ include_classic /\ CLASSIC_BT_AVAILABLE
        \/ a \in {"windows", "windows_advanced"} /\ IS_WINDOWS /\ extended_freebox_detection)

invoked(a) == member(tasks, a)

\* Records an adapter may return: one device (address MAC_A) under three
\* identifiers, one of them with its address in another format and its
\* name known, and a second device (MAC_B) of the same name.
MAC_A == <<"A", "A", ":", "B", "B", ":", "C", "C", ":", "D", "D", ":", "E", "E", ":", "F", "F">>
MAC_A_PLAIN == <<"a", "a", "b", "b", "c", "c", "d", "d", "e", "e", "f", "f">>
MAC_B == <<"1", "1", ":", "2", "2", ":", "3", "3", ":", "4", "4", ":", "5", "5", ":", "6", "6">>
NAME_TV == <<"t", "v">>
NAME_TV_CAPS == <<"T", "V">>
NAME_GENERIC == <<"B", "T", " ", "D", "e", "v", "i", "c", "e">>

raw_device(id, address, name, friendly_name, rssi) ==
    [EmptyDevice EXCEPT !.id = id, !.address = address, !.name = name,
                        !.friendly_name = friendly_name, !.rssi = rssi,
                        !.manufacturer_data = << >>, !.service_uuids = << >>]

Catalog ==
    { raw_device("dev1", MAC_A, Unknown, NAME_GENERIC, 0),
      raw_device("dev4", MAC_A, Unknown, NAME_GENERIC, -60),
      raw_device("dev2", MAC_A_PLAIN, NAME_TV, NAME_TV, -60),
      raw_device("dev3", MAC_B, NAME_TV_CAPS, NAME_TV_CAPS, -60) }

\* A record whose manufacturer_data is None, one without a name, and two
\* records that match them.
FaultyCatalog ==
    { raw_device("dev1", MAC_A, NAME_TV, NAME_TV, -40),
      [raw_device("dev1", MAC_A, NAME_TV, NAME_TV, -60) EXCEPT !.manufacturer_data = None],
      [raw_device("dev2", MAC_A, NAME_TV, NAME_TV, -60) EXCEPT !.manufacturer_data = None],
      raw_device("dev3", MAC_B, None, NAME_GENERIC, -60) }

\* "116 118 0": the codes of "tv" and the terminating 0, as an adapter
\* reports a name it could not read as text
ENCODED_TV == <<"1", "1", "6", " ", "1", "1", "8", " ", "0">>

\* A record whose name is encoded, a record of another address named by the
\* same text in capitals, and a nameless record at the address of the first.
EncodedCatalog ==
    { raw_device("dev1", MAC_A, Unknown, NAME_GENERIC, -40),
      raw_device("dev2", MAC_A, ENCODED_TV, NAME_GENERIC, -60),
      raw_device("dev3", MAC_B, NAME_TV_CAPS, NAME_GENERIC, -60) }

\* A record that carries no detected_by and two that carry the one their
\* scanner wrote (windows_scanner.py line 202, ble_scanner.py line 131).
StampedCatalog ==
    { raw_device("dev1", MAC_A, Unknown, NAME_GENERIC, -40),
      [raw_device("dev2", MAC_A_PLAIN, NAME_TV, NAME_TV, -60) EXCEPT
          !.detected_by = "windows_pnp"],
      [raw_device("dev3", MAC_B, NAME_TV_CAPS, NAME_TV_CAPS, -60) EXCEPT
          !.detected_by = "ble_scanner"] }

\* Records of very weak signals: two BLE records, a classic record of the
\* name of the first, and one record of each Windows adapter under the same
\* identifier, at the address of the second BLE record.
MAC_C == <<"2", "2", ":", "3", "3", ":", "4", "4", ":", "5", "5", ":", "6", "6", ":", "7", "7">>

CollidingRecords(a) ==
    CASE a = "ble" -> { raw_device("dev2", MAC_B, NAME_TV, NAME_TV, -105),
                        raw_device("dev1", MAC_A, Unknown, NAME_GENERIC, -105) }
      [] a = "classic" -> { raw_device("dev3", MAC_C, NAME_TV, NAME_TV, RSSI_NONE) }
      [] a = "windows" -> { raw_device("dev4", MAC_A, Unknown, NAME_GENERIC, -101) }
      [] a = "windows_advanced" -> { raw_device("dev4", MAC_A, NAME_TV, NAME_TV, -101) }

CollidingCatalog == UNION {CollidingRecords(a) : a \in elements(Adapters)}

catalog_records ==
    CASE catalog = "faulty" -> FaultyCatalog
      [] catalog = "colliding" -> CollidingCatalog
      [] catalog = "stamped" -> StampedCatalog
      [] catalog = "encoded" -> EncodedCatalog
      [] OTHER -> Catalog

\* the number of records the adapters of one scan return at most
record_budget == IF catalog = "colliding" THEN Cardinality(CollidingCatalog) ELSE MaxRecords

\* What an adapter returns: a list of at most n catalogue records, none twice.
\* The classic adapter has no signal measurement (classic_scanner.py line 101).
adapter_lists(a, n) ==
    LET records == IF catalog = "colliding" THEN CollidingRecords(a) ELSE catalog_records
        pick == UNION { {r \in [1..k -> records] : \A i, j \in 1..k : i # j => r[i] # r[j]}
                        : k \in 0..n }
    IN  IF a = "classic"
        THEN { [i \in 1..Len(r) |-> [r[i] EXCEPT !.rssi = RSSI_NONE]] : r \in pick }
        ELSE pick

\* A stamp that always writes the adapter's name.
stamp_overwriting(device, a) ==
    [device EXCEPT !.source_id = device.id, !.detected_by = adapter_name(a)]

\* lines 118-121, 139-142, 166-169, 197-200 and the four *_scan_task methods
stamp(device, a) ==
    [device EXCEPT
       !.source_id = device.id,
       !.detected_by = IF a \in {"windows", "windows_advanced"} /\ device.detected_by # AbsentId
                       THEN device.detected_by ELSE adapter_name(a)]

stamp_all(records, a) == [i \in 1..Len(records) |-> stamp(records[i], a)]

\* api/bluetooth.py and line 231: the error of a scan and the answer of the
\* endpoint.  A message is the list of the pieces it is built from.
NoError == [type |-> "none", message |-> << >>]
NoResponse == [status_code |-> "none", detail |-> << >>, devices |-> << >>]
ERROR_PREFIX == "Erreur lors du scan Bluetooth: "
MSG_ADAPTER == "Test error"
MSG_NONE_ITEMS == "'NoneType' object has no attribute 'items'"
MSG_VALIDATION == "validation error for BluetoothDevice"

\* line 231
scan_error(cause) == [type |-> "BluetoothScanError", message |-> <<ERROR_PREFIX, cause>>]

\* line 227: id, address and name of BluetoothDevice are required str fields
conversion_raises(device) ==
    \/ device.id \in {AbsentId, NoneId}
    \/ device.address \in {Absent, None}
    \/ device.name \in {Absent, None}

InitWith(records) ==
    /\ catalog = records
    /\ failures = << >>
    /\ error = NoError
    /\ response = NoResponse
    /\ deduplicate_devices \in BOOLEAN
    /\ parallel_scans \in BOOLEAN
    /\ \E include_classic, CLASSIC_BT_AVAILABLE, IS_WINDOWS, extended_freebox_detection \in BOOLEAN :
         tasks = task_list(include_classic, CLASSIC_BT_AVAILABLE, IS_WINDOWS,
                           extended_freebox_detection)
    /\ pc = "start"
    /\ settled = {}
    /\ raised = {}
    /\ scan_results = [a \in elements(Adapters) |-> << >>]
    /\ all_devices = << >>
    /\ received = << >>
    /\ output = << >>
    /\ call = [op |-> "none"]

Init == InitWith("plain")

InitFaulty == InitWith("faulty")

InitEncoded == InitWith("encoded")

InitStamped == InitWith("stamped")

InitColliding == InitWith("colliding")

\* line 74: the branch on parallel_scans
StartScan ==
    /\ pc = "start"
    /\ pc' = IF parallel_scans THEN "gather" ELSE "seq_ble"
    /\ UNCHANGED <<deduplicate_devices, parallel_scans, tasks, settled, raised,
                   scan_results, all_devices, received, output, call, catalog, failures,
                   error, response>>

pending_total == Len(scan_results["ble"]) + Len(scan_results["classic"])
                   + Len(scan_results["windows"]) + Len(scan_results["windows_advanced"])

\* A join that fails fast: the exception of an adapter leaves the task and
\* leaves gather.
gather_outcome_fail_fast(raises) == IF raises THEN "raised" ELSE "collected"

\* lines 235-249, 253-266, 270-284, 288-303: the body of each task is inside
\* try/except Exception, which logs and returns []; lines 93-99: gather is
\* called with return_exceptions=True and an exception among the results is
\* logged and skipped
gather_outcome(raises) == "collected"

\* lines 233-303: one task of the parallel branch settles; an adapter that
\* raises makes its task return []
TaskSettle(a) ==
    /\ pc = "gather"
    /\ invoked(a) /\ a \notin settled
    /\ \E raises \in BOOLEAN :
         \E records \in adapter_lists(a, record_budget - pending_total) :
            /\ raises => records = << >>
            /\ raised' = IF raises THEN raised \cup {a} ELSE raised
            /\ scan_results' = [scan_results EXCEPT ![a] = stamp_all(records, a)]
            /\ pc' = IF gather_outcome(raises) = "raised" THEN "error" ELSE pc
            /\ error' = IF gather_outcome(raises) = "raised" THEN scan_error(MSG_ADAPTER)
                        ELSE error
    /\ settled' = settled \cup {a}
    /\ UNCHANGED <<deduplicate_devices, parallel_scans, tasks, all_devices,
                   received, output, call, catalog, failures, response>>

\* A join that returns as soon as one task has settled.
gather_returns_first(started, done) == \E i \in 1..Len(started) : started[i] \in done

\* line 93: await asyncio.gather(*tasks) returns when every task has settled
gather_returns(started, done) == \A i \in 1..Len(started) : started[i] \in done

\* lines 93-108: gather has returned; the results are folded in task order
GatherFold ==
    /\ pc = "gather"
    /\ gather_returns(tasks, settled)
    /\ \E flat \in {scan_results["ble"] \o scan_results["classic"]
                      \o scan_results["windows"] \o scan_results["windows_advanced"]} :
         \E fold \in {fold_records(all_devices, flat, 0, deduplicate_devices, FALSE)} :
            IF fold.raised
            THEN /\ failures' = Append(failures, [phase |-> "fold", cause |-> MSG_NONE_ITEMS])
                 /\ error' = scan_error(MSG_NONE_ITEMS)
                 /\ pc' = "error"
                 /\ UNCHANGED <<all_devices, received>>
            ELSE /\ all_devices' = fold.devices
                 /\ received' = flat
                 /\ pc' = "folded"
                 /\ UNCHANGED <<failures, error>>
    /\ UNCHANGED <<deduplicate_devices, parallel_scans, tasks, settled, raised,
                   scan_results, output, call, catalog, response>>

\* lines 113, 134, 159, 190: the order of the sequential branch
next_pc(a) ==
    CASE a = "ble" -> "seq_classic"
      [] a = "classic" -> "seq_windows"
      [] a = "windows" -> "seq_windows_advanced"
      [] a = "windows_advanced" -> "folded"

\* lines 113-218: one adapter of the sequential branch.  A raise of the BLE
\* or classic adapter, or of the fold of one of their records, reaches the
\* except of line 229; a raise of a Windows adapter or of the fold of one of
\* its records is caught at lines 186, 217, and the scan goes on.
SeqAdapter(a) ==
    /\ pc = "seq_" \o a
    /\ IF ~invoked(a)
       THEN /\ pc' = next_pc(a)
            /\ UNCHANGED <<all_devices, received, raised, failures, error, scan_results>>
       ELSE \E raises \in BOOLEAN :
              \E records \in adapter_lists(a, record_budget - Len(received)) :
                \E by_match \in {a \in {"windows", "windows_advanced"}} :
                  \E fold \in {fold_records(all_devices, stamp_all(records, a), Len(received),
                                            deduplicate_devices, by_match)} :
                     /\ raises => records = << >>
                     /\ raised' = IF raises THEN raised \cup {a} ELSE raised
                     /\ scan_results' = [scan_results EXCEPT ![a] = stamp_all(records, a)]
                     /\ failures' = IF fold.raised
                                    THEN Append(failures, [phase |-> "fold",
                                                           cause |-> MSG_NONE_ITEMS])
                                    ELSE failures
                     /\ IF (raises \/ fold.raised) /\ ~by_match
                        THEN /\ pc' = "error"
                             /\ error' = scan_error(IF raises THEN MSG_ADAPTER
                                                    ELSE MSG_NONE_ITEMS)
                             /\ UNCHANGED <<all_devices, received>>
                        ELSE /\ pc' = next_pc(a)
                             /\ all_devices' = fold.devices
                             /\ received' = received
                                              \o SubSeq(stamp_all(records, a), 1,
                                                        fold.n - Len(received))
                             /\ UNCHANGED error
    /\ UNCHANGED <<deduplicate_devices, parallel_scans, tasks, settled,
                   output, call, catalog, response>>

\* lines 220-227: the final pass and the conversion of the working set
Finish ==
    /\ pc = "folded"
    /\ \E deduped \in {IF deduplicate_devices THEN _advanced_deduplication(all_devices)
                        ELSE all_devices} :
         IF deduped = MergeRaised
         THEN /\ failures' = Append(failures, [phase |-> "final pass",
                                                cause |-> MSG_NONE_ITEMS])
              /\ error' = scan_error(MSG_NONE_ITEMS)
              /\ pc' = "error"
              /\ UNCHANGED output
         ELSE IF \E i \in 1..Len(deduped) : conversion_raises(deduped[i].dev)
         THEN /\ failures' = Append(failures, [phase |-> "conversion",
                                                cause |-> MSG_VALIDATION])
              /\ error' = scan_error(MSG_VALIDATION)
              /\ pc' = "error"
              /\ UNCHANGED output
         ELSE /\ output' = deduped
              /\ pc' = "done"
              /\ UNCHANGED <<failures, error>>
    /\ UNCHANGED <<deduplicate_devices, parallel_scans, tasks, settled, raised,
                   scan_results, all_devices, received, call, catalog, response>>

\* api/bluetooth.py lines 35-51: the endpoint answers with the devices, or
\* turns BluetoothScanError into HTTPException(500, str(e))
Respond ==
    /\ pc \in {"done", "error"}
    /\ response = NoResponse
    /\ response' = IF pc = "error"
                   THEN [status_code |-> "500", detail |-> error.message, devices |-> << >>]
                   ELSE [status_code |-> "200", detail |-> << >>, devices |-> output]
    /\ UNCHANGED <<deduplicate_devices, parallel_scans, tasks, pc, settled, raised,
                   scan_results, all_devices, received, output, call, catalog, failures,
                   error>>

Next ==
    \/ StartScan
    \/ \E a \in elements(Adapters) : TaskSettle(a)
    \/ GatherFold
    \/ \E a \in elements(Adapters) : SeqAdapter(a)
    \/ Finish
    \/ Respond

Spec == Init /\ [][Next]_vars

\* the same scan over adapters that return the records of FaultyCatalog
SpecFaulty == InitFaulty /\ [][Next]_vars

\* the same scan over adapters that return the records of EncodedCatalog
SpecEncoded == InitEncoded /\ [][Next]_vars

\* the same scan over adapters that return the records of CollidingRecords
SpecColliding == InitColliding /\ [][Next]_vars

\* the same scan over adapters that return the records of StampedCatalog
SpecStamped == InitStamped /\ [][Next]_vars

(***************************************************************************)
(* The pure functions, called on bounded sets of arguments.  No scan runs. *)
(***************************************************************************)
NoScan ==
    /\ deduplicate_devices = TRUE /\ parallel_scans = TRUE
    /\ tasks = << >> /\ pc = "idle" /\ settled = {} /\ raised = {}
    /\ scan_results = [a \in elements(Adapters) |-> << >>]
    /\ all_devices = << >> /\ received = << >> /\ output = << >>
    /\ catalog = "plain" /\ failures = << >> /\ error = NoError /\ response = NoResponse

\* Strings shaped like addresses: up to MaxPairs two-character groups, joined
\* by one separator or none, with or without a trailing character.
MaxPairs == 7

PairTexts == { <<"a", "a">>, <<"B", "1">>, <<"g", "0">> }
Separators == { << >>, <<":">>, <<"-">>, <<".">> }
Trailers == { << >>, <<"f">>, <<":">> }

RECURSIVE join_groups(_, _)
join_groups(groups, sep) ==
    IF groups = << >> THEN << >>
    ELSE IF Len(groups) = 1 THEN groups[1]
    ELSE groups[1] \o sep \o join_groups(Tail(groups), sep)

AddressTexts ==
    {None} \cup
    { join_groups(g, sep) \o t :
        g \in UNION {[1..k -> PairTexts] : k \in 0..MaxPairs},
        sep \in Separators, t \in Trailers }

InitNormalize ==
    /\ NoScan
    /\ \E x \in AddressTexts : call = [op |-> "argument", args |-> <<x>>]

CallNormalizeMacAddress ==
    /\ call.op = "argument"
    /\ call' = [op |-> "normalize_mac_address", args |-> call.args,
                ret |-> normalize_mac_address(call.args[1])]
    /\ UNCHANGED scan_vars

CallNormalizeDeviceId ==
    /\ call.op = "argument"
    /\ call' = [op |-> "_normalize_device_id", args |-> call.args,
                ret |-> _normalize_device_id(call.args[1])]
    /\ UNCHANGED scan_vars

NextNormalize == CallNormalizeMacAddress \/ CallNormalizeDeviceId

SpecNormalize == InitNormalize /\ [][NextNormalize]_vars

\* Device records for the identity heuristic: every field that a case of
\* _device_matches reads, present, missing, None or a placeholder.
MaxNameLen == 4

NameLetters == {"a", "B", "c"}
NameTexts == UNION {[1..k -> NameLetters] : k \in 0..MaxNameLen} \cup {None}

BATTERY_SERVICE == "0000180f-0000-1000-8000-00805f9b34fb"

MatchDevices ==
    { [EmptyDevice EXCEPT !.id = "dev1", !.address = address, !.name = name,
                          !.friendly_name = friendly_name, !.source_id = source_id,
                          !.merged_from = merged_from, !.service_uuids = service_uuids,
                          !.manufacturer_data = manufacturer_data] :
        address \in {Absent, MAC_A, MAC_A_PLAIN},
        name \in {None, Unknown, NAME_TV, ENCODED_TV},
        friendly_name \in {Absent, NAME_TV_CAPS},
        source_id \in {AbsentId, "dev1"},
        merged_from \in {Absent, <<"dev1">>},
        service_uuids \in {<< >>, <<BATTERY_SERVICE>>},
        manufacturer_data \in {<< >>, [k \in {76} |-> "apple"]} }

InitMatch ==
    /\ NoScan
    /\ \/ \E a, b \in MatchDevices : call = [op |-> "devices", args |-> <<a, b>>]
       \/ \E a, b \in NameTexts : call = [op |-> "names", args |-> <<a, b>>]

CallDeviceMatches ==
    /\ call.op = "devices"
    /\ call' = [op |-> "_device_matches", args |-> call.args,
                ret |-> _device_matches(call.args[1], call.args[2])]
    /\ UNCHANGED scan_vars

CallNamesMatch ==
    /\ call.op = "names"
    /\ call' = [op |-> "_names_match", args |-> call.args,
                ret |-> _names_match(call.args[1], call.args[2])]
    /\ UNCHANGED scan_vars

NextMatch == CallDeviceMatches \/ CallNamesMatch

SpecMatch == InitMatch /\ [][NextMatch]_vars

(***************************************************************************)
(* merge_device_info called on bounded sets of records.                    *)
(***************************************************************************)
TYPE_BLE == <<"B", "L", "E">>
TYPE_CLASSIC == <<"C", "l", "a", "s", "s", "i", "c">>
TYPE_PNP == <<"W", "i", "n", "d", "o", "w", "s", "-", "P", "n", "P">>

\* Records as the scan hands them to merge_device_info the first time:
\* stamped with source_id and detected_by, never merged before.
SourceRecords(stamps) ==
    { [raw_device(st[1], MAC_A, NAME_TV, NAME_TV, rssi) EXCEPT
          !.source_id = st[1], !.detected_by = st[2], !.device_type = device_type] :
        st \in stamps, rssi \in {RSSI_NONE, 0, -40, -60},
        device_type \in {TYPE_BLE, TYPE_CLASSIC, TYPE_PNP} }

\* the two ways of associating three merges, default precedence
merge_left(a, b, c) == merge_device_info(merge_device_info(a, b, TRUE), c, TRUE)
merge_right(a, b, c) == merge_device_info(a, merge_device_info(b, c, TRUE), TRUE)

\* every way of merging three records: all orders, both associations
merge_all(a, b, c) ==
    LET r == <<a, b, c>>
        orders == {p \in [1..3 -> 1..3] : \A i, j \in 1..3 : i # j => p[i] # p[j]}
    IN  {merge_left(r[p[1]], r[p[2]], r[p[3]]) : p \in orders}
          \cup {merge_right(r[p[1]], r[p[2]], r[p[3]]) : p \in orders}

\* Records for one call of merge_device_info: a name that is missing, empty,
\* a placeholder, plain or encoded; a generic or a proper friendly name; with
\* or without a company; first-hand (with or without manufacturer data) or
\* the result of an earlier merge.
COMPANY_APPLE == <<"A", "p", "p", "l", "e">>

MergeRecords(id, detected_by) ==
    { [raw_device(id, MAC_A, name, friendly_name, rssi) EXCEPT
          !.source_id = id, !.detected_by = detected_by,
          !.company_name = company_name,
          !.manufacturer_data = kind.manufacturer_data,
          !.detection_sources = kind.detection_sources,
          !.merged_from = kind.merged_from] :
        name \in {Absent, << >>, Unknown, NAME_TV, ENCODED_TV},
        friendly_name \in {NAME_GENERIC, NAME_TV_CAPS},
        rssi \in {RSSI_NONE, 0, -40, -60},
        company_name \in {Absent, COMPANY_APPLE},
        kind \in { [manufacturer_data |-> << >>, detection_sources |-> Absent,
                    merged_from |-> Absent],
                   [manufacturer_data |-> [k \in {76} |-> "apple"],
                    detection_sources |-> Absent, merged_from |-> Absent],
                   [manufacturer_data |-> [k \in {6} |-> "microsoft"],
                    detection_sources |-> Absent, merged_from |-> Absent],
                   [manufacturer_data |-> << >>, detection_sources |-> <<detected_by>>,
                    merged_from |-> <<id, "dev0">>] } }

InitMerge ==
    /\ NoScan
    /\ \/ \E x \in MergeRecords("dev1", "ble_scanner"),
             y \in MergeRecords("dev2", "windows_pnp"), prioritize_high_rssi \in BOOLEAN :
            call = [op |-> "two records", args |-> <<x, y, prioritize_high_rssi>>]
       \/ \E a \in SourceRecords({<<"dev1", "ble_scanner">>}),
             b \in SourceRecords({<<"dev2", "classic_scanner">>, <<"dev1", "classic_scanner">>}),
             c \in SourceRecords({<<"dev3", "windows_pnp">>}) :
            call = [op |-> "three records", args |-> <<a, b, c>>]

CallMergeAll ==
    /\ call.op = "three records"
    /\ call' = [op |-> "merge_all", args |-> call.args,
                ret |-> merge_all(call.args[1], call.args[2], call.args[3])]
    /\ UNCHANGED scan_vars

\* args_after holds the two records as the caller finds them afterwards
CallMergeDeviceInfo ==
    /\ call.op = "two records"
    /\ call' = [op |-> "merge_device_info", args |-> call.args,
                ret |-> merge_device_info(call.args[1], call.args[2], call.args[3]),
                args_after |-> args_after_merge(call.args[1], call.args[2], call.args[3])]
    /\ UNCHANGED scan_vars

NextMerge == CallMergeAll \/ CallMergeDeviceInfo

SpecMerge == InitMerge /\ [][NextMerge]_vars

\* merge_device_info called on records that differ in friendly_name and
\* signal: a missing, empty, generic, plain or encoded friendly name
FriendlyRecords(id, detected_by) ==
    { [raw_device(id, MAC_A, NAME_TV, friendly_name, rssi) EXCEPT
          !.source_id = id, !.detected_by = detected_by] :
        friendly_name \in {Absent, None, << >>, NAME_GENERIC, NAME_TV_CAPS, ENCODED_TV},
        rssi \in {RSSI_NONE, -40, -60} }

InitFriendly ==
    /\ NoScan
    /\ \E x \in FriendlyRecords("dev1", "ble_scanner"),
          y \in FriendlyRecords("dev2", "windows_pnp"), prioritize_high_rssi \in BOOLEAN :
         call = [op |-> "two records", args |-> <<x, y, prioritize_high_rssi>>]

SpecFriendly == InitFriendly /\ [][CallMergeDeviceInfo]_vars

\* merge_device_info called on records that differ in the advertised data:
\* each collection missing, empty, or holding entries of which some are
\* under a key or value the other record has too.  The keys of service_data
\* are written as numbers (6159 is 0x180F, the battery service).
HEART_RATE_SERVICE == "0000180d-0000-1000-8000-00805f9b34fb"
LINK_LOSS_SERVICE == "00001803-0000-1000-8000-00805f9b34fb"

DataRecords(id, detected_by, other_uuid) ==
    { [raw_device(id, MAC_A, NAME_TV, NAME_TV, rssi) EXCEPT
          !.source_id = id, !.detected_by = detected_by,
          !.manufacturer_data = manufacturer_data,
          !.service_data = service_data,
          !.service_uuids = service_uuids] :
        manufacturer_data \in {Absent, << >>, [k \in {76} |-> id], [k \in {76, 6} |-> id],
                               [k \in {117} |-> id]},
        service_data \in {Absent, << >>, [k \in {6159} |-> id]},
        service_uuids \in {Absent, << >>, <<BATTERY_SERVICE>>, <<BATTERY_SERVICE, other_uuid>>},
        rssi \in {RSSI_NONE, -40, -60} }

InitData ==
    /\ NoScan
    /\ \E x \in DataRecords("dev1", "ble_scanner", HEART_RATE_SERVICE),
          y \in DataRecords("dev2", "windows_pnp", LINK_LOSS_SERVICE), prioritize_high_rssi \in BOOLEAN :
         call = [op |-> "two records", args |-> <<x, y, prioritize_high_rssi>>]

SpecData == InitData /\ [][CallMergeDeviceInfo]_vars

(***************************************************************************)
(* Properties                                                              *)
(***************************************************************************)
\* every entry of the working set and of the returned list
Entries ==
    {all_devices[i] : i \in 1..Len(all_devices)} \cup {output[i] : i \in 1..Len(output)}

no_duplicates(lst) == \A i, j \in 1..Len(lst) : i # j => lst[i] # lst[j]

has_rssi(device) == device.rssi # RSSI_NONE /\ device.rssi # RSSI_ABSENT

\* C1: after the final pass of a deduplicating scan, no two entries of the
\* result satisfy the identity heuristic against each other.
C1_NoDuplicateSurvivors ==
    (pc = "done" /\ deduplicate_devices) =>
        \A i, j \in 1..Len(output) :
            i # j => ~_device_matches(output[i].dev, output[j].dev)

\* C2: the detection_sources of a record that results from merges holds the
\* detected_by of every adapter record merged into it, each once.
C2_SourcesComplete ==
    \A e \in Entries :
        Cardinality(e.members) > 1 =>
            /\ \A n \in e.members : member(e.dev.detection_sources, received[n].detected_by)
            /\ no_duplicates(e.dev.detection_sources)

\* C3: the merged_from of a record that results from merges holds the
\* source_id of every adapter record absorbed into it and its own, each once.
C3_MergedFromComplete ==
    \A e \in Entries :
        Cardinality(e.members) > 1 =>
            /\ \A n \in e.members : member(e.dev.merged_from, received[n].source_id)
            /\ member(e.dev.merged_from, e.dev.source_id)
            /\ no_duplicates(e.dev.merged_from)

\* C3 witness: the final pass has absorbed an entry that the streaming phase
\* had itself merged from records of two identifiers, into another entry.
C3_Witness ==
    /\ pc = "done"
    /\ \E i \in 1..Len(output), k \in 1..Len(all_devices) :
         /\ all_devices[k].key # output[i].key
         /\ all_devices[k].members \subseteq output[i].members
         /\ Cardinality({received[n].source_id : n \in all_devices[k].members}) >= 2
         /\ Cardinality({received[n].source_id : n \in output[i].members}) >= 3

\* C4: when one adapter raises, in either mode, the scan still returns and
\* no error reaches the caller.
C4_PartialFailureTolerated ==
    Cardinality(raised) = 1 => pc # "error"

\* C5: in a deduplicating scan two adapter records whose addresses are
\* address-like and equal once normalized end in the same output record,
\* whose detection_sources holds the detected_by of both.
C5_SameAddressMerged ==
    (pc = "done" /\ deduplicate_devices) =>
        \A m, n \in 1..Len(received) :
            (m # n /\ match_address(received[m], received[n])) =>
                \E i \in 1..Len(output) :
                    /\ {m, n} \subseteq output[i].members
                    /\ member(output[i].dev.detection_sources, received[m].detected_by)
                    /\ member(output[i].dev.detection_sources, received[n].detected_by)

\* C6: without deduplication the output holds one separate record for every
\* record the adapters returned, equal to it.
C6_NoDedupKeepsAll ==
    (pc = "done" /\ ~deduplicate_devices) =>
        /\ Len(output) = Len(received)
        /\ \A n \in 1..Len(received) :
             \E i \in 1..Len(output) : output[i].dev = received[n]

\* a >= b as signal strengths, a missing or None RSSI being the weakest
rssi_at_least(a, b) == ~has_rssi(b) \/ (has_rssi(a) /\ a.rssi >= b.rssi)

\* C7: the returned list is sorted by descending RSSI, a missing RSSI last.
C7_SortedByRssi ==
    pc = "done" =>
        \A i \in 1..(Len(output) - 1) : rssi_at_least(output[i].dev, output[i + 1].dev)

\* C8: the rssi of a record that results from merges is the measurement
\* closest to zero among the records merged into it, and None only if none
\* of them had a measurement.
C8_StrongestRssiKept ==
    \A e \in Entries :
        Cardinality(e.members) > 1 =>
            LET measured == {received[n].rssi : n \in {k \in e.members : has_rssi(received[k])}}
            IN  IF measured = {} THEN e.dev.rssi = RSSI_NONE
                ELSE /\ e.dev.rssi \in measured
                     /\ \A v \in measured : abs(e.dev.rssi) <= abs(v)

\* C9: the identity heuristic and the name comparison are symmetric.
C9_MatchSymmetric ==
    /\ call.op = "_device_matches" =>
         call.ret = _device_matches(call.args[2], call.args[1])
    /\ call.op = "_names_match" =>
         call.ret = _names_match(call.args[2], call.args[1])

\* C9 witness: two records that match through one record's source_id being
\* in the other's merged_from and through nothing else, and two names that
\* match because one contains the other.
C9_Witness ==
    \/ /\ call.op = "_device_matches" /\ call.ret
       /\ call.args[1].source_id = "dev1" /\ call.args[1].merged_from = Absent
       /\ call.args[2].source_id = AbsentId /\ call.args[2].merged_from = <<"dev1">>
       /\ ~match_address(call.args[1], call.args[2])
       /\ ~match_name(call.args[1], call.args[2])
       /\ ~match_decoded_name(call.args[1], call.args[2])
       /\ ~match_friendly_name(call.args[1], call.args[2])
       /\ ~match_service_uuids(call.args[1], call.args[2])
       /\ ~match_manufacturer(call.args[1], call.args[2])
    \/ /\ call.op = "_names_match" /\ call.ret
       /\ Len(call.args[1]) < Len(call.args[2])
       /\ lower(call.args[1]) # lower(call.args[2])

\* C10: normalizing a normalized address changes nothing, for both
\* normalizers, and an empty or None argument gives the empty string.
C10_NormalizeIdempotent ==
    /\ call.op = "normalize_mac_address" =>
         /\ normalize_mac_address(call.ret) = call.ret
         /\ ~truthy(call.args[1]) => call.ret = << >>
    /\ call.op = "_normalize_device_id" =>
         /\ _normalize_device_id(call.ret) = call.ret
         /\ ~truthy(call.args[1]) => call.ret = << >>

\* C10 witness: an address that normalization rewrote.
C10_Witness ==
    /\ call.op = "normalize_mac_address"
    /\ truthy(call.args[1])
    /\ call.ret # call.args[1]
    /\ Len(call.ret) = MAC_HEX_LEN + (MAC_HEX_LEN \div 2) - 1

\* C11: whatever the order and the association in which three adapter
\* records are merged, the result's detection_sources are the three
\* detected_by values and its merged_from the three source_ids.
C11_OrderVariedMergesKeepSources ==
    call.op = "merge_all" =>
        \A r \in call.ret :
            /\ elements(r.detection_sources)
                 = {call.args[i].detected_by : i \in 1..3}
            /\ elements(r.merged_from) = {call.args[i].source_id : i \in 1..3}

\* C11 witness: three records of three sources and three identifiers whose
\* signal strengths make the orders of merging give different records.
C11_Witness ==
    /\ call.op = "merge_all"
    /\ Cardinality({call.args[i].detected_by : i \in 1..3}) = 3
    /\ Cardinality({call.args[i].source_id : i \in 1..3}) = 3
    /\ Cardinality({r.detection_sources : r \in call.ret}) > 1
    /\ Cardinality({r.rssi : r \in call.ret}) = 1
    /\ \E i \in 1..3 : call.args[i].rssi = RSSI_NONE

\* C12: merge_device_info leaves the two records it is given, and the
\* contents of their collections, as they were before the call.
C12_MergeLeavesArguments ==
    call.op = "merge_device_info" =>
        /\ call.args_after[1] = call.args[1]
        /\ call.args_after[2] = call.args[2]

C14_ReconciliationFailureSurfaces ==
    failures # << >> =>
        /\ pc # "done" /\ output = << >>
        /\ pc = "error" =>
              /\ error.type = "BluetoothScanError"
              /\ member(error.message, failures[Len(failures)].cause)
        /\ response # NoResponse =>
              /\ response.status_code = "500"
              /\ response.detail = error.message

\* the name of device1 is the list of the character codes of the name of
\* device2, whatever the letter case of the latter
names_by_code(device1, device2) ==
    /\ truthy(device1.name) /\ truthy(device2.name)
    /\ decode_ascii_name(device1.name) # device1.name
    /\ decode_ascii_name(device2.name) = device2.name
    /\ lower(decode_ascii_name(device1.name)) = lower(device2.name)

\* C15: a record whose name is the code list of a text and a record named
\* by that text in any letter case satisfy the identity heuristic, and a
\* deduplicating scan returns them in one output record.
C15_EncodedNameMerged ==
    \A m, n \in 1..Len(received) :
        names_by_code(received[m], received[n]) =>
            /\ _device_matches(received[m], received[n])
            /\ (pc = "done" /\ deduplicate_devices) =>
                  \E i \in 1..Len(output) : {m, n} \subseteq output[i].members

\* the text, without the separators ':', '-' and '.', is exactly twelve
\* hexadecimal digits
is_twelve_hex(text) ==
    /\ Len(clean_mac(text)) = MAC_HEX_LEN
    /\ \A i \in 1..Len(clean_mac(text)) : clean_mac(text)[i] \in HexDigits

\* C16: normalize_mac_address returns unchanged every text that is not a
\* MAC address, that is, whose form without separators is not exactly
\* twelve hexadecimal digits.
C16_NonMacUnchanged ==
    (call.op = "normalize_mac_address" /\ truthy(call.args[1])
       /\ ~is_twelve_hex(call.args[1])) =>
        call.ret = call.args[1]

\* a name that is missing, None, empty or "Unknown"
placeholder(name) == ~truthy(name) \/ name = Unknown

\* C17: a merge keeps the stronger record's meaningful name; over a
\* placeholder it takes the decoded form of the weaker's name if decoding
\* changes it, else the weaker's name if that is no placeholder.  So the
\* merged name is decoded and no placeholder whenever a merged record
\* supplied such a name.
C17_InformativeNameSurvives ==
    call.op = "merge_device_info" =>
        LET stronger == stronger_device(call.args[1], call.args[2], call.args[3])
            weaker == weaker_device(call.args[1], call.args[2], call.args[3])
        IN  /\ IF ~placeholder(stronger.name) THEN call.ret.name = stronger.name
               ELSE IF truthy(weaker.name) /\ decode_ascii_name(weaker.name) # weaker.name
                    THEN call.ret.name = decode_ascii_name(weaker.name)
               ELSE ~placeholder(weaker.name) => call.ret.name = weaker.name
            /\ (\E i \in 1..2 : ~placeholder(call.args[i].name)) =>
                  /\ ~placeholder(call.ret.name)
                  /\ decode_ascii_name(call.ret.name) = call.ret.name

\* C18: in whatever order and association three adapter records with simple
\* device_type tags are merged, the device_type of the result is their
\* distinct tags in sorted order joined by '+'; equal types stay as they are.
C18_DeviceTypeOrderFree ==
    call.op = "merge_all" =>
        \A r \in call.ret :
            r.device_type
              = join(Plus, sorted_tags({call.args[i].device_type : i \in 1..3}))

\* C18 witness: three records of three types, merged in orders that give
\* different records, all of type "BLE+Classic+Windows-PnP"; and three
\* records of one type.
C18_Witness ==
    /\ call.op = "merge_all"
    /\ \/ /\ {call.args[i].device_type : i \in 1..3} = {TYPE_BLE, TYPE_CLASSIC, TYPE_PNP}
          /\ Cardinality(call.ret) > 1
          /\ \A r \in call.ret :
                r.device_type = TYPE_BLE \o Plus \o TYPE_CLASSIC \o Plus \o TYPE_PNP
       \/ /\ \A i \in 1..3 : call.args[i].device_type = TYPE_PNP
          /\ \A r \in call.ret : r.device_type = TYPE_PNP

\* C19: with prioritize_high_rssi = FALSE the left record is the base
\* whatever the two RSSI values: the result has the left record's id,
\* address, meaningful name, company_name and friendly_name, and the right
\* record's rssi only when the left record has none.
C19_LeftIsBase ==
    (call.op = "merge_device_info" /\ ~call.args[3]) =>
        LET left == call.args[1]
            right == call.args[2]
        IN  /\ truthy_id(left.id) => call.ret.id = left.id
            /\ truthy(left.address) => call.ret.address = left.address
            /\ ~placeholder(left.name) => call.ret.name = left.name
            /\ truthy(left.company_name) => call.ret.company_name = left.company_name
            /\ truthy(left.friendly_name) => call.ret.friendly_name = left.friendly_name
            /\ call.ret.rssi = IF has_rssi(left) THEN left.rssi ELSE right.rssi

\* C20: in parallel mode nothing is folded before every started task has
\* settled, and the records are folded in the task order BLE, classic,
\* Windows, Windows-advanced: the working set is the fold of the adapters'
\* lists in that order, whatever the order in which the tasks settled.
C20_FoldAfterJoin ==
    parallel_scans =>
        /\ (all_devices # << >> \/ received # << >> \/ pc \in {"folded", "done"}) =>
              \A i \in 1..Len(tasks) : tasks[i] \in settled
        /\ pc \in {"folded", "done"} =>
              /\ received = scan_results["ble"] \o scan_results["classic"]
                              \o scan_results["windows"] \o scan_results["windows_advanced"]
              /\ all_devices
                   = fold_records(<< >>, received, 0, deduplicate_devices, FALSE).devices

\* C20 witness: a parallel scan of all four adapters has folded records of
\* the first and of the last task, two of them into one entry.
C20_Witness ==
    /\ parallel_scans /\ deduplicate_devices /\ pc = "folded"
    /\ tasks = Adapters
    /\ scan_results["ble"] # << >> /\ scan_results["windows_advanced"] # << >>
    /\ \E i \in 1..Len(all_devices) :
         \E m, n \in all_devices[i].members :
            received[m].detected_by # received[n].detected_by

\* the working set is being built: the streaming phase is under way or over
\* and the final pass has not run
streaming == pc \in {"seq_classic", "seq_windows", "seq_windows_advanced", "folded"}

\* C21: with deduplication enabled, a record whose id is not yet a key and
\* which matches an existing entry is merged into that entry, whatever the
\* adapter and the mode: before the final pass the working set holds no
\* entry made of one record that matched, when it arrived, an entry whose
\* records had all arrived before it.
C21_StreamingMatchMerged ==
    (deduplicate_devices /\ streaming) =>
        \A i, j \in 1..Len(all_devices) :
            \A n \in all_devices[j].members :
                (/\ i # j
                 /\ all_devices[j].members = {n}
                 /\ \A m \in all_devices[i].members : m < n)
                => ~_device_matches(all_devices[i].dev, all_devices[j].dev)

\* the number of adapters the sequential branch has gone through
adapters_done ==
    CASE pc = "seq_ble" -> 0
      [] pc = "seq_classic" -> 1
      [] pc = "seq_windows" -> 2
      [] pc = "seq_windows_advanced" -> 3
      [] OTHER -> 4

\* the working set after the lists of the four adapters were folded one
\* list after the other, each list into what the lists before it left
fold_in_turn(ble, classic, windows, windows_advanced, deduplicate) ==
    fold_records(
      fold_records(
        fold_records(
          fold_records(<< >>, ble, 0, deduplicate, FALSE).devices,
          classic, Len(ble), deduplicate, FALSE).devices,
        windows, Len(ble) + Len(classic), deduplicate, TRUE).devices,
      windows_advanced, Len(ble) + Len(classic) + Len(windows), deduplicate, TRUE).devices

\* C22: in sequential mode the adapters run in the order BLE, classic,
\* Windows, Windows-advanced, and when an adapter is about to be invoked no
\* later adapter has returned anything and every record the earlier adapters
\* returned has been folded, list after list, into the working set.
C22_SequentialFoldBeforeNext ==
    (~parallel_scans /\ pc \in {"seq_ble", "seq_classic", "seq_windows",
                                "seq_windows_advanced", "folded"}) =>
        /\ \A i \in (adapters_done + 1)..Len(Adapters) : scan_results[Adapters[i]] = << >>
        /\ received = scan_results["ble"] \o scan_results["classic"]
                        \o scan_results["windows"] \o scan_results["windows_advanced"]
        /\ all_devices = fold_in_turn(scan_results["ble"], scan_results["classic"],
                                      scan_results["windows"],
                                      scan_results["windows_advanced"], deduplicate_devices)

\* the entries of the working set that the output entry o stands for
group_of(o) == {i \in 1..Len(all_devices) : all_devices[i].members \subseteq o.members}

\* the canonical entry of o merged with the other entries of its group, one
\* at a time in the order of the working set
RECURSIVE merged_in_order(_, _, _)
merged_in_order(res, o, j) ==
    IF j > Len(all_devices) THEN res
    ELSE IF j \in group_of(o) /\ all_devices[j].key # o.key
         THEN merged_in_order(merge_device_info(res, all_devices[j].dev, TRUE), o, j + 1)
    ELSE merged_in_order(res, o, j + 1)

\* C23: in the final pass the canonical entries are taken in descending
\* order of RSSI (-100 for a missing or None RSSI), ties in the order of the
\* working set; each is stored under its own key; every entry absorbed into
\* it has a sort RSSI not above its own; and the absorbed entries are merged
\* in one at a time in the order of the working set.
C23_GroupLedByStrongest ==
    (deduplicate_devices /\ pc = "done") =>
        /\ \A a, b \in 1..Len(output) :
              a < b =>
                 LET i == index_of(all_devices, output[a].key)
                     j == index_of(all_devices, output[b].key)
                 IN  \/ sort_key(all_devices[i].dev) > sort_key(all_devices[j].dev)
                     \/ /\ sort_key(all_devices[i].dev) = sort_key(all_devices[j].dev)
                        /\ i < j
        /\ \A a \in 1..Len(output) :
              /\ has_key(all_devices, output[a].key)
              /\ index_of(all_devices, output[a].key) \in group_of(output[a])
              /\ \A i \in group_of(output[a]) :
                    sort_key(all_devices[i].dev)
                      <= sort_key(all_devices[index_of(all_devices, output[a].key)].dev)
              /\ output[a].dev
                   = merged_in_order(all_devices[index_of(all_devices, output[a].key)].dev,
                                     output[a], 1)

\* C23 witness: the final pass has merged into one canonical entry two
\* entries of the working set, one of them of a weaker signal, and has
\* emitted two canonical entries of equal sort RSSI.
C23_Witness ==
    /\ deduplicate_devices /\ pc = "done"
    /\ \E a \in 1..Len(output) :
         /\ Cardinality(group_of(output[a])) >= 3
         /\ \E i \in group_of(output[a]) :
               sort_key(all_devices[i].dev)
                 < sort_key(all_devices[index_of(all_devices, output[a].key)].dev)
    /\ \E a, b \in 1..Len(output) :
         /\ a < b
         /\ sort_key(all_devices[index_of(all_devices, output[a].key)].dev)
              = sort_key(all_devices[index_of(all_devices, output[b].key)].dev)

\* a friendly name that is an encoded byte dump: decoding changes it
encoded(text) == truthy(text) /\ decode_ascii_name(text) # text

\* the longer of two friendly names, a missing or empty one counting as
\* shorter than any other; the stronger record's on equal length
longer_name(mine, other) ==
    IF ~truthy(other) THEN mine
    ELSE IF ~truthy(mine) THEN other
    ELSE IF Len(other) > Len(mine) THEN other ELSE mine

\* C24: the merged friendly_name is the decoded text of the weaker record's
\* friendly_name when that is an encoded byte dump and the stronger record's
\* is missing or generic; otherwise it is the longer of the two non-empty
\* friendly names; and it is never the undecoded byte dump.
C24_FriendlyNameRule ==
    call.op = "merge_device_info" =>
        LET stronger == stronger_device(call.args[1], call.args[2], call.args[3])
            weaker == weaker_device(call.args[1], call.args[2], call.args[3])
        IN  /\ IF /\ encoded(weaker.friendly_name)
                  /\ (~truthy(stronger.friendly_name)
                        \/ contains(stronger.friendly_name, DeviceWord))
               THEN call.ret.friendly_name = decode_ascii_name(weaker.friendly_name)
               ELSE IF truthy(stronger.friendly_name) \/ truthy(weaker.friendly_name)
               THEN call.ret.friendly_name
                      = longer_name(stronger.friendly_name, weaker.friendly_name)
               ELSE ~truthy(call.ret.friendly_name)
            /\ ~encoded(call.ret.friendly_name)

\* the keys of a dict field and the elements of a list field, none for a
\* missing field
keys_of(dict) == IF dict = Absent THEN {} ELSE DOMAIN dict
uuids_of(lst) == IF lst = Absent THEN {} ELSE elements(lst)

\* merged holds the keys of both dicts, with the stronger record's value on
\* each of its keys and the weaker's on the others
is_union(merged, stronger, weaker) ==
    /\ keys_of(merged) = keys_of(stronger) \cup keys_of(weaker)
    /\ \A k \in keys_of(stronger) : merged[k] = stronger[k]
    /\ \A k \in keys_of(weaker) \ keys_of(stronger) : merged[k] = weaker[k]

\* C25: the merged manufacturer_data and service_data have the union of the
\* two records' keys with the stronger record's value on the keys of both,
\* and the merged service_uuids is the union of the two lists, whichever
\* record is the stronger and also when a field is missing or empty on one
\* side.
C25_AdvertisedDataKept ==
    call.op = "merge_device_info" =>
        LET stronger == stronger_device(call.args[1], call.args[2], call.args[3])
            weaker == weaker_device(call.args[1], call.args[2], call.args[3])
        IN  /\ is_union(call.ret.manufacturer_data, stronger.manufacturer_data,
                        weaker.manufacturer_data)
            /\ is_union(call.ret.service_data, stronger.service_data, weaker.service_data)
            /\ uuids_of(call.ret.service_uuids)
                 = uuids_of(stronger.service_uuids) \cup uuids_of(weaker.service_uuids)

\* C25 witness: the right-hand record is the stronger one, the two
\* manufacturer_data share a key and each has a key of its own kind, one
\* service_data is missing, and each list of service UUIDs has an element
\* the other lacks.
C25_Witness ==
    /\ call.op = "merge_device_info"
    /\ classic_is_stronger(call.args[1], call.args[2], call.args[3])
    /\ call.args[1].manufacturer_data # Absent /\ call.args[2].manufacturer_data # Absent
    /\ DOMAIN call.args[1].manufacturer_data = {76, 6}
    /\ DOMAIN call.args[2].manufacturer_data = {76}
    /\ call.ret.manufacturer_data[76] = "dev2"
    /\ call.args[2].service_data = Absent /\ call.args[1].service_data # Absent
    /\ call.args[1].service_data # << >>
    /\ Len(call.ret.service_uuids) = 3

\* the detected_by a record of adapter a must carry: the one the adapter
\* supplied if a is a Windows adapter, the adapter's name otherwise
expected_detected_by(a, supplied) ==
    IF a \in {"windows", "windows_advanced"} /\ supplied # AbsentId
    THEN supplied ELSE adapter_name(a)

\* C26: every record an adapter returned carries, from its receipt on, its
\* own id as source_id and a detected_by (the one a Windows adapter supplied,
\* else the adapter's name), in both modes and with or without
\* deduplication; the records the working set stands for are such records,
\* and an entry made of one record is that record as stamped.
C26_StampedOnReceipt ==
    /\ \A i \in 1..Len(Adapters) :
          \A n \in 1..Len(scan_results[Adapters[i]]) :
             LET device == scan_results[Adapters[i]][n]
             IN  /\ device.source_id = device.id
                 /\ truthy_id(device.detected_by)
                 /\ \A r \in catalog_records :
                       r.id = device.id =>
                          device.detected_by = expected_detected_by(Adapters[i], r.detected_by)
    /\ \A i \in 1..Len(all_devices) :
          \A n \in all_devices[i].members :
             /\ n \in 1..Len(received)
             /\ \E j \in 1..Len(Adapters) :
                   member(scan_results[Adapters[j]], received[n])
             /\ all_devices[i].members = {n} => all_devices[i].dev = received[n]

\* C26 witness: the working set holds a record of a Windows adapter under
\* the detected_by the adapter supplied, a BLE record whose supplied
\* detected_by was replaced, and a record stamped with the name of the
\* Windows adapter.
C26_Witness ==
    /\ pc = "folded"
    /\ \E i, j, k \in 1..Len(received) :
         /\ received[i].id = "dev2" /\ received[i].detected_by = "windows_pnp"
         /\ received[j].id = "dev2" /\ received[j].detected_by = "ble_scanner"
         /\ received[k].id = "dev1"
         /\ received[k].detected_by \in {"windows_scanner", "windows_advanced_scanner"}
    /\ \E i \in 1..Len(all_devices) : Cardinality(all_devices[i].members) = 1

\* C27: merge_device_info raises for no pair of records whose optional
\* fields are missing, None, empty or well-typed, so no phase of a
\* deduplicating scan that merges records (the fold of an adapter's list,
\* the final pass) fails on the records the adapters delivered.
C27_MergeNeverRaises ==
    /\ \A i \in 1..Len(failures) : failures[i].phase \notin {"fold", "final pass"}
    /\ \A i, j \in 1..Len(received) : ~merge_raises(received[i], received[j], TRUE)

\* the output record stands for the identifier: it is the record's
\* source_id or one of its merged_from
represents(device, id) ==
    \/ device.source_id = id
    \/ truthy(device.merged_from) /\ member(device.merged_from, id)

\* the output records that stand for an identifier
representatives(id) == {i \in 1..Len(output) : represents(output[i].dev, id)}

\* the output entries that hold an entry of the working set
holders(e) == {i \in 1..Len(output) : e.members \subseteq output[i].members}

\* C28: after a deduplicating scan the original id of every record an
\* adapter returned is the source_id or one of the merged_from of exactly one
\* output record, and every entry of the working set went, as canonical or
\* absorbed, into exactly one output entry.
C28_EveryObservationOnce ==
    (deduplicate_devices /\ pc = "done") =>
        /\ \A a \in 1..Len(Adapters) :
              \A n \in 1..Len(scan_results[Adapters[a]]) :
                 Cardinality(representatives(scan_results[Adapters[a]][n].id)) = 1
        /\ \A k \in 1..Len(all_devices) : Cardinality(holders(all_devices[k])) = 1
        /\ \A i, j \in 1..Len(output) :
              i # j => output[i].members \cap output[j].members = {}

\* C29: the id fields of the records one scan returns are pairwise
\* distinct, with and without deduplication and in both modes.
C29_OutputIdsDistinct ==
    pc = "done" =>
        \A i, j \in 1..Len(output) : i # j => output[i].dev.id # output[j].dev.id

\* the working set the other execution mode builds from the same lists
other_mode_devices ==
    IF parallel_scans
    THEN fold_in_turn(scan_results["ble"], scan_results["classic"], scan_results["windows"],
                      scan_results["windows_advanced"], deduplicate_devices)
    ELSE fold_records(<< >>, scan_results["ble"] \o scan_results["classic"]
                               \o scan_results["windows"] \o scan_results["windows_advanced"],
                      0, deduplicate_devices, FALSE).devices

\* the list the other execution mode returns
other_mode_output ==
    IF deduplicate_devices THEN _advanced_deduplication(other_mode_devices)
    ELSE other_mode_devices

\* what the claim compares of a returned list: for each record the adapter
\* records it stands for, its id, its rssi and its two traceability sets
summary(entries) ==
    { [ members |-> entries[i].members,
        id |-> entries[i].dev.id,
        rssi |-> entries[i].dev.rssi,
        detection_sources |-> uuids_of(entries[i].dev.detection_sources),
        merged_from |-> uuids_of(entries[i].dev.merged_from) ] : i \in 1..Len(entries) }

\* C30: for the same lists returned by the same adapters, none failing, and
\* the same deduplicate_devices, the parallel and the sequential mode return
\* the same set of records.
C30_ModeIndependent ==
    (pc = "done" /\ raised = {}) => summary(output) = summary(other_mode_output)

====
